---- MODULE Spec2Model ----
(***************************************************************************)
(* Model of buildScript.py: argument and location validation, two clean    *)
(* passes over the bin/obj directories of the two projects, and the        *)
(* rewrite of the <AssemblyVersion> line of the two .csproj files.         *)
(*                                                                         *)
(* A str is a sequence of one-character strings: file contents, lines and  *)
(* the version string are such sequences, so that substring search, the    *)
(* search for the first '<', str.split and the readlines / writelines      *)
(* round trip are computed the way Python computes them.  Paths and        *)
(* console messages are never searched and are kept as TLA+ strings.       *)
(* Text-mode files are modelled after newline translation: the line        *)
(* terminator is the single character "\n".                                *)
(***************************************************************************)
EXTENDS FiniteSets, Integers, Sequences, TLC

VARIABLES pc, argv, fileDirName, fs, locked, files, out, opens,
          fs0, files0, cleanPasses, calls

vars == <<pc, argv, fileDirName, fs, locked, files, out, opens,
          fs0, files0, cleanPasses, calls>>

(***************************************************************************)
(* Bounds of the model.                                                    *)
(***************************************************************************)
\* longest configuration file, in lines, of the function-level specification
MaxLines == 3
\* calls of UpdateCsprojAssemblyVersion made by the function-level specification
MaxCalls == 2

(***************************************************************************)
(* Literals of the program.                                                *)
(***************************************************************************)
NL == "\n"

TagOpen == <<"<", "A", "s", "s", "e", "m", "b", "l", "y",
             "V", "e", "r", "s", "i", "o", "n", ">">>

TagClose == <<"<", "/", "A", "s", "s", "e", "m", "b", "l", "y",
              "V", "e", "r", "s", "i", "o", "n", ">">>

ExpectedDirName == "Color Selector"

VersionComponents == 3

MsgUsagePrefix == "Usage: "

MsgUsageSuffix == "[version string]"

MsgVersionError == "Error: Version string must contain major,minor, and revision numbers separated by '.'"

MsgDirError == "Error: build script must be run from repository root! Exiting..."

MsgCleaning == "Cleaning bin and obj directories ..."

MsgDone == "done."

MsgSetting == "Setting version {0} in .csproj files ..."

MsgWarningPrefix == "Warning: could not find AssemblyVersion line in "

\* "{0}\\{1}".format(a, b); paths are kept relative to currentDirectory
JoinPath(a, b) == a \o "\\" \o b

colorSelectorDir == "ColorSelector"

colorSelectorStandaloneDir == "ColorSelectorTestApp"

colorSelectorCsproj == JoinPath(colorSelectorDir, "ColorSelector.csproj")

colorSelectorStandaloneCsproj ==
    JoinPath(colorSelectorStandaloneDir, "ColorSelectorStandalone.csproj")

CsprojFiles == {colorSelectorCsproj, colorSelectorStandaloneCsproj}

\* CleanTargets with the last block copied from the second and its
\* directory not changed
CleanTargetsCopiedBlock == << JoinPath(colorSelectorDir, "bin"),
                              JoinPath(colorSelectorDir, "obj"),
                              JoinPath(colorSelectorStandaloneDir, "bin"),
                              JoinPath(colorSelectorDir, "obj") >>

\* the four rmtree targets, in the order CleanDirectories visits them
CleanTargets == << JoinPath(colorSelectorDir, "bin"),
                   JoinPath(colorSelectorDir, "obj"),
                   JoinPath(colorSelectorStandaloneDir, "bin"),
                   JoinPath(colorSelectorStandaloneDir, "obj") >>

Targets == {JoinPath(d, n) : d \in {colorSelectorDir, colorSelectorStandaloneDir},
                            n \in {"bin", "obj"}}

\* directories of the repository that are no target of the clean pass
OtherPaths == {colorSelectorDir, colorSelectorStandaloneDir,
               JoinPath(colorSelectorDir, "Properties")}

Paths == Targets \cup OtherPaths

(***************************************************************************)
(* str and list operations used by the script.                             *)
(***************************************************************************)
\* sub in s
Contains(sub, s) ==
    \E i \in 1..(Len(s) - Len(sub) + 1) : SubSeq(s, i, i + Len(sub) - 1) = sub

\* s.index(ch): 0-based position of the first ch (the script only calls it
\* on a line that contains "<AssemblyVersion>", hence a '<')
StrIndex(s, ch) ==
    (CHOOSE i \in 1..Len(s) : s[i] = ch /\ \A j \in 1..(i - 1) : s[j] # ch) - 1

\* s[:n]
Prefix(s, n) == SubSeq(s, 1, n)

\* len(s.split(sep)): one component more than there are separators
RECURSIVE Split(_, _)
Split(s, sep) ==
    IF \A i \in 1..Len(s) : s[i] # sep
    THEN <<s>>
    ELSE LET k == StrIndex(s, sep)
         IN  <<Prefix(s, k)>> \o Split(SubSeq(s, k + 2, Len(s)), sep)

\* f.readlines(): the lines with their terminators; a last line without a
\* terminator is returned as it is
RECURSIVE readlines(_)
readlines(content) ==
    IF content = <<>>
    THEN <<>>
    ELSE IF \A i \in 1..Len(content) : content[i] # NL
         THEN <<content>>
         ELSE LET k == StrIndex(content, NL)
              IN  <<Prefix(content, k + 1)>>
                      \o readlines(SubSeq(content, k + 2, Len(content)))

\* f.writelines(text) on a file opened with 'w': the concatenation
RECURSIVE writelines(_)
writelines(text) ==
    IF text = <<>> THEN <<>> ELSE Head(text) \o writelines(Tail(text))

\* text.index(x): 0-based position of the first element equal to x
ListIndex(text, x) ==
    (CHOOSE i \in 1..Len(text) :
        text[i] = x /\ \A j \in 1..(i - 1) : text[j] # x) - 1

\* text.remove(x): drops the first element equal to x
ListRemove(text, x) ==
    LET k == ListIndex(text, x)
    IN  SubSeq(text, 1, k) \o SubSeq(text, k + 2, Len(text))

\* text.insert(k, x) for 0 <= k: x goes before position k, or at the end
ListInsert(text, k, x) ==
    IF k >= Len(text)
    THEN Append(text, x)
    ELSE SubSeq(text, 1, k) \o <<x>> \o SubSeq(text, k + 1, Len(text))

(***************************************************************************)
(* UpdateCsprojAssemblyVersion.                                            *)
(***************************************************************************)
\* the loop of lines 28-30: the last line containing the tag, "" if none
RECURSIVE FindAssemblyVersionLine(_, _)
FindAssemblyVersionLine(text, assemblyVersionLine) ==
    IF text = <<>>
    THEN assemblyVersionLine
    ELSE FindAssemblyVersionLine(Tail(text),
             IF Contains(TagOpen, Head(text)) THEN Head(text)
             ELSE assemblyVersionLine)

\* LeadingSpaces taken up to the tag instead of up to the first '<'
LeadingSpacesUpToTag(assemblyVersionLine) ==
    Prefix(assemblyVersionLine,
           (CHOOSE i \in 1..Len(assemblyVersionLine) :
                /\ SubSeq(assemblyVersionLine, i, i + Len(TagOpen) - 1) = TagOpen
                /\ \A j \in 1..(i - 1) :
                       SubSeq(assemblyVersionLine, j, j + Len(TagOpen) - 1) # TagOpen) - 1)

\* line 40
LeadingSpaces(assemblyVersionLine) ==
    Prefix(assemblyVersionLine, StrIndex(assemblyVersionLine, "<"))

\* the argument of text.insert on line 44
FormatVersionLine(leadingSpaces, version) ==
    leadingSpaces \o TagOpen \o version \o TagClose \o <<NL>>

\* lines 38-44: the list after remove and insert
ReplaceVersionLine(text, assemblyVersionLine, version) ==
    LET assemblyIndex == ListIndex(text, assemblyVersionLine)
        leadingSpaces == LeadingSpaces(assemblyVersionLine)
    IN  ListInsert(ListRemove(text, assemblyVersionLine), assemblyIndex,
                   FormatVersionLine(leadingSpaces, version))

\* line 33
TagMissing(assemblyVersionLine) == assemblyVersionLine = <<>>

\* UpdateCsprojAssemblyVersion writing the lines back also when the tag is
\* missing
UpdateCsprojAssemblyVersionAlwaysWrites(file, content, version) ==
    LET text == readlines(content)
        assemblyVersionLine == FindAssemblyVersionLine(text, <<>>)
    IN  IF TagMissing(assemblyVersionLine)
        THEN [content |-> writelines(text),
              out     |-> <<MsgWarningPrefix \o file>>,
              opens   |-> << <<file, "r">>, <<file, "w">> >>,
              returns |-> TRUE]
        ELSE [content |-> writelines(
                              ReplaceVersionLine(text, assemblyVersionLine, version)),
              out     |-> <<>>,
              opens   |-> << <<file, "r">>, <<file, "w">> >>,
              returns |-> TRUE]

\* UpdateCsprojAssemblyVersion ending the run when the tag is missing
UpdateCsprojAssemblyVersionExits(file, content, version) ==
    LET text == readlines(content)
        assemblyVersionLine == FindAssemblyVersionLine(text, <<>>)
    IN  IF TagMissing(assemblyVersionLine)
        THEN [content |-> content,
              out     |-> <<MsgWarningPrefix \o file>>,
              opens   |-> << <<file, "r">> >>,
              returns |-> FALSE]
        ELSE [content |-> writelines(
                              ReplaceVersionLine(text, assemblyVersionLine, version)),
              out     |-> <<>>,
              opens   |-> << <<file, "r">>, <<file, "w">> >>,
              returns |-> TRUE]

\* the effect of one call on the content of the file, on the console and on
\* the list of files opened; the function returns to its caller in both
\* branches
UpdateCsprojAssemblyVersion(file, content, version) ==
    LET text == readlines(content)
        assemblyVersionLine == FindAssemblyVersionLine(text, <<>>)
    IN  IF TagMissing(assemblyVersionLine)
        THEN [content |-> content,
              out     |-> <<MsgWarningPrefix \o file>>,
              opens   |-> << <<file, "r">> >>,
              returns |-> TRUE]
        ELSE [content |-> writelines(
                              ReplaceVersionLine(text, assemblyVersionLine, version)),
              out     |-> <<>>,
              opens   |-> << <<file, "r">>, <<file, "w">> >>,
              returns |-> TRUE]

(***************************************************************************)
(* CleanDirectories.                                                       *)
(***************************************************************************)
\* os.path.isdir
IsDir(dirs, path) == dirs[path] = "dir"

\* shutil.rmtree(path, ignore_errors=False) raises when the directory is
\* held by another program
RmtreeRaises(path, lk) == path \in lk

\* a successful shutil.rmtree
Rmtree(dirs, path) == [dirs EXCEPT ![path] = "absent"]

\* the four if-blocks of lines 6-16 from block i on: the directories left
\* and whether an rmtree raised, which ends the pass
RECURSIVE CleanFrom(_, _, _)
CleanFrom(i, dirs, lk) ==
    IF i > Len(CleanTargets)
    THEN [fs |-> dirs, raised |-> FALSE]
    ELSE IF IsDir(dirs, CleanTargets[i])
         THEN IF RmtreeRaises(CleanTargets[i], lk)
              THEN [fs |-> dirs, raised |-> TRUE]
              ELSE CleanFrom(i + 1, Rmtree(dirs, CleanTargets[i]), lk)
         ELSE CleanFrom(i + 1, dirs, lk)

CleanDirectories(dirs, lk) == CleanFrom(1, dirs, lk)

(***************************************************************************)
(* Inputs.                                                                 *)
(***************************************************************************)
ScriptName == "buildScript.py"

V213 == <<"2", ".", "1", ".", "3">>

V100 == <<"1", ".", "0", ".", "0">>

VDots == <<".", ".">>

\* first arguments that pass the check of line 58
ValidVersions == {V213, VDots}

\* first arguments with 1, 1, 2 and 4 components
InvalidVersions == { <<>>, <<"2", "1", "3">>, <<"2", ".", "1">>,
                     <<"2", ".", "1", ".", "3", ".", "4">> }

ArgvSet == { <<ScriptName>> }
               \cup { <<ScriptName, v>> : v \in ValidVersions \cup InvalidVersions }

\* basename(dirname(__file__)); it is empty when __file__ has no directory part
DirNames == {ExpectedDirName, "color selector", ""}

Spaces(n) == [i \in 1..n |-> " "]

VersionLine(indent, version) == indent \o TagOpen \o version \o TagClose \o <<NL>>

LinePlain == <<"<", "P", ">", NL>>

LineTag4 == VersionLine(Spaces(4), V100)

LineTag2 == VersionLine(Spaces(2), V100)

\* the tag is not the first element of its line
LineTagInner == <<" ", "<", "P", ">">> \o TagOpen \o V100 \o TagClose \o <<NL>>

\* a line that already carries version 2.1.3
LineTagNew == VersionLine(Spaces(4), V213)

LinePool == {LinePlain, LineTag4, LineTag2, LineTagInner, LineTagNew}

\* the last line of a file may lack its terminator
StripFinalNewline(content) ==
    IF content = <<>> THEN content ELSE SubSeq(content, 1, Len(content) - 1)

RECURSIVE LineSeqs(_)
LineSeqs(n) ==
    IF n = 0
    THEN { <<>> }
    ELSE LET shorter == LineSeqs(n - 1)
         IN  shorter \cup {Append(t, l) : t \in shorter, l \in LinePool}

\* every file of at most MaxLines lines of the pool, with or without the
\* terminator of the last line
PoolContents ==
    LET whole == {writelines(t) : t \in LineSeqs(MaxLines)}
    IN  whole \cup {StripFinalNewline(c) : c \in whole}

\* the configuration files of the whole-run specification
RunContents1 == { writelines(<<LinePlain, LineTag4, LinePlain>>),
                  writelines(<<LinePlain, LinePlain>>),
                  writelines(<<LineTag2, LinePlain, LineTag2>>) }

RunContents2 == { writelines(<<LinePlain, LineTagInner>>),
                  writelines(<<LinePlain>>) }

Kinds == {"absent", "dir", "file"}

(***************************************************************************)
(* The script, top to bottom.                                              *)
(***************************************************************************)
versionString == argv[2]

Init ==
    /\ pc = "checkArguments"
    /\ argv \in ArgvSet
    /\ fileDirName \in DirNames
    /\ \E k \in [Targets -> Kinds] :
           fs = [p \in Paths |-> IF p \in Targets THEN k[p] ELSE "dir"]
    /\ locked \in SUBSET Targets
    /\ \E c1 \in RunContents1, c2 \in RunContents2 :
           files = [f \in CsprojFiles |-> IF f = colorSelectorCsproj THEN c1 ELSE c2]
    /\ out = <<>>
    /\ opens = <<>>
    /\ fs0 = fs
    /\ files0 = files
    /\ cleanPasses = 0
    /\ calls = <<>>

\* line 51
ArgumentMissing(args) == Len(args) < 2

\* the check of line 58 rejecting only too few components
VersionTooShort(version) == Len(Split(version, ".")) < VersionComponents

\* line 58
VersionMalformed(version) == Len(Split(version, ".")) # VersionComponents

\* the check of line 65 letting an empty directory name pass
WrongDirectoryUnlessEmpty(name) == name # ExpectedDirName /\ name # ""

\* line 65
WrongDirectory(name) == name # ExpectedDirName

\* lines 51-53
CheckArguments ==
    /\ pc = "checkArguments"
    /\ IF ArgumentMissing(argv)
       THEN /\ out' = Append(out, MsgUsagePrefix \o argv[1] \o MsgUsageSuffix)
            /\ pc' = "exited"
       ELSE /\ out' = out
            /\ pc' = "checkVersion"
    /\ UNCHANGED <<argv, fileDirName, fs, locked, files, opens,
                   fs0, files0, cleanPasses, calls>>

\* lines 55-60
CheckVersionString ==
    /\ pc = "checkVersion"
    /\ IF VersionMalformed(versionString)
       THEN /\ out' = Append(out, MsgVersionError)
            /\ pc' = "exited"
       ELSE /\ out' = out
            /\ pc' = "checkDirectory"
    /\ UNCHANGED <<argv, fileDirName, fs, locked, files, opens,
                   fs0, files0, cleanPasses, calls>>

\* lines 63-67
CheckDirectory ==
    /\ pc = "checkDirectory"
    /\ IF WrongDirectory(fileDirName)
       THEN /\ out' = Append(out, MsgDirError)
            /\ pc' = "exited"
       ELSE /\ out' = out
            /\ pc' = "clean1"
    /\ UNCHANGED <<argv, fileDirName, fs, locked, files, opens,
                   fs0, files0, cleanPasses, calls>>

\* AfterClean as if rmtree were called with ignore_errors=True
AfterCleanIgnoringErrors(raised, next) == next

\* where the script goes after a clean pass: an exception raised by rmtree
\* is not caught anywhere and ends the run
AfterClean(raised, next) == IF raised THEN "crashed" ELSE next

\* lines 76-77
FirstClean ==
    /\ pc = "clean1"
    /\ LET r == CleanDirectories(fs, locked)
       IN  /\ fs' = r.fs
           /\ pc' = AfterClean(r.raised, "sleep")
    /\ out' = Append(out, MsgCleaning)
    /\ cleanPasses' = cleanPasses + 1
    /\ UNCHANGED <<argv, fileDirName, locked, files, opens, fs0, files0, calls>>

\* line 81: while the script sleeps, the program that holds directories may
\* release them or take others, and may create again directories that
\* existed before
Sleep ==
    /\ pc = "sleep"
    /\ pc' = "clean2"
    /\ locked' \in SUBSET Targets
    /\ \E regenerated \in SUBSET {t \in Targets : fs0[t] = "dir" /\ fs[t] = "absent"} :
           fs' = [p \in Paths |-> IF p \in regenerated THEN "dir" ELSE fs[p]]
    /\ UNCHANGED <<argv, fileDirName, files, out, opens,
                   fs0, files0, cleanPasses, calls>>

\* lines 82-83
SecondClean ==
    /\ pc = "clean2"
    /\ LET r == CleanDirectories(fs, locked)
       IN  /\ fs' = r.fs
           /\ pc' = AfterClean(r.raised, "patch1")
           /\ out' = IF r.raised THEN out ELSE Append(out, MsgDone)
    /\ cleanPasses' = cleanPasses + 1
    /\ UNCHANGED <<argv, fileDirName, locked, files, opens, fs0, files0, calls>>

\* the record kept of one call of UpdateCsprojAssemblyVersion
CallRecord(file, before, r) ==
    [file |-> file, before |-> before, after |-> r.content,
     out |-> r.out, opens |-> r.opens]

\* lines 86-87
PatchFirst ==
    /\ pc = "patch1"
    /\ LET r == UpdateCsprojAssemblyVersion(colorSelectorCsproj,
                    files[colorSelectorCsproj], versionString)
       IN  /\ files' = [files EXCEPT ![colorSelectorCsproj] = r.content]
           /\ out' = Append(out, MsgSetting) \o r.out
           /\ opens' = opens \o r.opens
           /\ pc' = IF r.returns THEN "patch2" ELSE "exited"
           /\ calls' = Append(calls, CallRecord(colorSelectorCsproj,
                                         files[colorSelectorCsproj], r))
    /\ UNCHANGED <<argv, fileDirName, fs, locked, fs0, files0, cleanPasses>>

\* lines 88-89
PatchSecond ==
    /\ pc = "patch2"
    /\ LET r == UpdateCsprojAssemblyVersion(colorSelectorStandaloneCsproj,
                    files[colorSelectorStandaloneCsproj], versionString)
       IN  /\ files' = [files EXCEPT ![colorSelectorStandaloneCsproj] = r.content]
           /\ out' = IF r.returns THEN Append(out \o r.out, MsgDone) ELSE out \o r.out
           /\ opens' = opens \o r.opens
           /\ pc' = IF r.returns THEN "done" ELSE "exited"
           /\ calls' = Append(calls, CallRecord(colorSelectorStandaloneCsproj,
                                         files[colorSelectorStandaloneCsproj], r))
    /\ UNCHANGED <<argv, fileDirName, fs, locked, fs0, files0, cleanPasses>>

Next ==
    \/ CheckArguments
    \/ CheckVersionString
    \/ CheckDirectory
    \/ FirstClean
    \/ Sleep
    \/ SecondClean
    \/ PatchFirst
    \/ PatchSecond

Spec == Init /\ [][Next]_vars

(***************************************************************************)
(* UpdateCsprojAssemblyVersion called on its own, as often as MaxCalls,    *)
(* with one version string, on files of every shape of the pool.           *)
(***************************************************************************)
PatchInit ==
    /\ pc = "patch"
    /\ \E v \in ValidVersions : argv = <<ScriptName, v>>
    /\ fileDirName = ExpectedDirName
    /\ fs = [p \in Paths |-> IF p \in Targets THEN "absent" ELSE "dir"]
    /\ locked = {}
    /\ \E c1 \in PoolContents, c2 \in RunContents2 :
           files = [f \in CsprojFiles |-> IF f = colorSelectorCsproj THEN c1 ELSE c2]
    /\ out = <<>>
    /\ opens = <<>>
    /\ fs0 = fs
    /\ files0 = files
    /\ cleanPasses = 2
    /\ calls = <<>>

PatchCall(file) ==
    /\ pc = "patch"
    /\ Len(calls) < MaxCalls
    /\ LET r == UpdateCsprojAssemblyVersion(file, files[file], versionString)
       IN  /\ files' = [files EXCEPT ![file] = r.content]
           /\ out' = out \o r.out
           /\ opens' = opens \o r.opens
           /\ calls' = Append(calls, CallRecord(file, files[file], r))
    /\ UNCHANGED <<pc, argv, fileDirName, fs, locked, fs0, files0, cleanPasses>>

PatchNext == \E file \in CsprojFiles : PatchCall(file)

PatchSpec == PatchInit /\ [][PatchNext]_vars

(***************************************************************************)
(* Vocabulary of the properties, written without the operators of the      *)
(* model of UpdateCsprojAssemblyVersion.                                   *)
(***************************************************************************)
\* positions of the lines of text that contain <AssemblyVersion>
TagPositions(text) ==
    {k \in 1..Len(text) :
        \E i \in 1..Len(text[k]) :
            /\ i + Len(TagOpen) - 1 <= Len(text[k])
            /\ \A j \in 1..Len(TagOpen) : text[k][i + j - 1] = TagOpen[j]}

LastPosition(positions) == CHOOSE k \in positions : \A m \in positions : m <= k

\* the text of line before its first '<'
BeforeFirstAngle(line) ==
    LET n == CHOOSE m \in 0..Len(line) :
                 /\ \A i \in 1..m : line[i] # "<"
                 /\ m < Len(line) => line[m + 1] = "<"
    IN  [i \in 1..n |-> line[i]]

ExpectedLine(line, version) ==
    BeforeFirstAngle(line) \o TagOpen \o version \o TagClose \o <<"\n">>

\* text with the line at position k replaced by ExpectedLine of line
WithLineReplaced(text, k, line, version) ==
    [i \in 1..Len(text) |-> IF i = k THEN ExpectedLine(line, version) ELSE text[i]]

DotCount(version) == Cardinality({i \in 1..Len(version) : version[i] = "."})

Written(file) == \E i \in 1..Len(opens) : opens[i] = <<file, "w">>

Untouched ==
    /\ fs = fs0
    /\ files = files0
    /\ \A file \in CsprojFiles : ~Written(file)

binOfColorSelector == "ColorSelector\\bin"

objOfColorSelector == "ColorSelector\\obj"

binOfStandalone == "ColorSelectorTestApp\\bin"

objOfStandalone == "ColorSelectorTestApp\\obj"

FourTargets == {binOfColorSelector, objOfColorSelector,
                binOfStandalone, objOfStandalone}

(***************************************************************************)
(* Properties.                                                             *)
(***************************************************************************)
\* C1: a call on a file in which exactly one line contains <AssemblyVersion>
\* writes a file with the same number of lines, in which the line at that
\* position is (old line before its first '<') + <AssemblyVersion> +
\* versionString + </AssemblyVersion> + newline and every other line is the
\* line of the original at the same position.
C1_SingleTagLineReplaced ==
    \A i \in 1..Len(calls) :
        LET old == readlines(calls[i].before)
            new == readlines(calls[i].after)
            pos == TagPositions(old)
        IN  Cardinality(pos) = 1 =>
                /\ Len(new) = Len(old)
                /\ \A k \in pos :
                       new = WithLineReplaced(old, k, old[k], versionString)

C1_Witness ==
    \E i \in 1..Len(calls) :
        LET old == readlines(calls[i].before)
        IN  /\ Len(old) = 3
            /\ TagPositions(old) = {2}
            /\ old[2] = LineTagInner
            /\ calls[i].after # calls[i].before

\* C2: a call on a file with one or more lines containing <AssemblyVersion>
\* builds the new line from the LAST such line and puts it at the position
\* of that last line; every other line, earlier tag lines included, stays.
C2_LastMatchWins ==
    \A i \in 1..Len(calls) :
        LET old == readlines(calls[i].before)
            new == readlines(calls[i].after)
            pos == TagPositions(old)
        IN  pos # {} =>
                new = WithLineReplaced(old, LastPosition(pos),
                                       old[LastPosition(pos)], versionString)

\* C3: a call on a file in which no line contains <AssemblyVersion> prints a
\* warning that names the file, never opens the file for writing and leaves
\* its content as it was.
C3_MissingTagLeavesFile ==
    \A i \in 1..Len(calls) :
        TagPositions(readlines(calls[i].before)) = {} =>
            /\ calls[i].after = calls[i].before
            /\ calls[i].out =
                   <<"Warning: could not find AssemblyVersion line in "
                         \o calls[i].file>>
            /\ \A j \in 1..Len(calls[i].opens) : calls[i].opens[j][2] # "w"

C3_Witness ==
    \E i \in 1..Len(calls) :
        /\ Len(readlines(calls[i].before)) = 2
        /\ TagPositions(readlines(calls[i].before)) = {}
        /\ calls[i].file = colorSelectorCsproj

\* C4: once the version check has run, the run is past it exactly when the
\* first argument has 3 components (2 dots); with any other count the run
\* has printed the version error and ended with no directory deleted and no
\* configuration file written.
C4_VersionValidation ==
    (Len(argv) >= 2 /\ pc \notin {"checkArguments", "checkVersion"}) =>
        IF DotCount(argv[2]) + 1 = 3
        THEN \A i \in 1..Len(out) : out[i] # MsgVersionError
        ELSE /\ pc = "exited"
             /\ out = <<MsgVersionError>>
             /\ cleanPasses = 0
             /\ Untouched

C4_Witness ==
    /\ pc = "exited"
    /\ Len(argv) = 2
    /\ DotCount(argv[2]) = 3
    /\ fileDirName = "Color Selector"
    /\ fs[binOfColorSelector] = "dir"
    /\ locked = {}

\* C5: in a run whose containing directory is not named "Color Selector" no
\* clean pass ever starts, nothing is deleted or written, and the run can
\* only end by exiting with an error message, which is the directory error
\* when the arguments passed their checks.
C5_WrongDirectoryNoMutation ==
    fileDirName # "Color Selector" =>
        /\ cleanPasses = 0
        /\ Untouched
        /\ pc \in {"checkArguments", "checkVersion", "checkDirectory", "exited"}
        /\ pc = "exited" =>
               /\ Len(out) = 1
               /\ (Len(argv) >= 2 /\ DotCount(argv[2]) = 2) => out = <<MsgDirError>>
               /\ (Len(argv) >= 2 /\ DotCount(argv[2]) # 2) => out = <<MsgVersionError>>

C5_Witness ==
    /\ pc = "exited"
    /\ out = <<MsgDirError>>
    /\ fileDirName = ""
    /\ fs[objOfStandalone] = "dir"
    /\ locked = {}

\* C6: every run that passed validation and has left the clean phase, in
\* whatever way, has executed the clean pass exactly twice, also when a
\* deletion of the first pass failed on a locked directory.
C6_SecondPassUnconditional ==
    pc \in {"crashed", "patch1", "patch2", "done"} => cleanPasses = 2

\* C7: a configuration file is written only after two clean passes that
\* left no target directory behind, and a run that a failed deletion ended
\* has left both configuration files as they were.
C7_PatchOnlyAfterClean ==
    /\ (files # files0 \/ \E file \in CsprojFiles : Written(file)) =>
           /\ cleanPasses = 2
           /\ pc \in {"patch2", "done"}
           /\ \A t \in FourTargets : fs[t] # "dir"
    /\ pc = "crashed" =>
           /\ files = files0
           /\ \A file \in CsprojFiles : ~Written(file)
           /\ \E t \in FourTargets : fs[t] = "dir" /\ t \in locked

C7_Witness ==
    /\ pc = "crashed"
    /\ cleanPasses = 2
    /\ TagPositions(readlines(files0[colorSelectorCsproj])) # {}

\* C8: after a clean pass in which no deletion failed, none of the four
\* targets is a directory, a target that was no directory is as it was, and
\* no other directory and no configuration file has changed.
C8_CleanPassRemovesTargets ==
    pc \in {"sleep", "patch1"} =>
        /\ \A t \in FourTargets :
               /\ fs[t] # "dir"
               /\ fs0[t] # "dir" => fs[t] = fs0[t]
        /\ \A p \in (DOMAIN fs) \ FourTargets : fs[p] = fs0[p]
        /\ files = files0

C8_Witness ==
    /\ pc = "sleep"
    /\ fs0[binOfColorSelector] = "dir"
    /\ fs0[objOfColorSelector] = "absent"
    /\ fs0[binOfStandalone] = "file"
    /\ fs0[objOfStandalone] = "dir"

\* C9: when the first configuration file has no <AssemblyVersion> line the
\* run does not end at the first call: it stands before the call on the
\* second file or has made it, and then it has ended normally, the second
\* file is patched if it had the tag, and the last message is the final
\* "done.".
C9_MissingTagIsLocal ==
    ( /\ Len(calls) >= 1
      /\ TagPositions(readlines(files0[colorSelectorCsproj])) = {} ) =>
        /\ pc \in {"patch2", "done"}
        /\ pc = "done" =>
               /\ Len(calls) = 2
               /\ calls[2].file = colorSelectorStandaloneCsproj
               /\ out[Len(out)] = MsgDone
               /\ LET old == readlines(files0[colorSelectorStandaloneCsproj])
                      new == readlines(files[colorSelectorStandaloneCsproj])
                      pos == TagPositions(old)
                  IN  pos # {} =>
                          \E k \in 1..Len(new) :
                              \E line \in {old[m] : m \in pos} :
                                  new[k] = ExpectedLine(line, versionString)

C9_Witness ==
    /\ pc = "done"
    /\ TagPositions(readlines(files0[colorSelectorCsproj])) = {}
    /\ TagPositions(readlines(files0[colorSelectorStandaloneCsproj])) # {}
    /\ files[colorSelectorStandaloneCsproj] # files0[colorSelectorStandaloneCsproj]

\* C10: a second call on the same file with the same version string leaves
\* the file as the first call left it.
C10_Idempotent ==
    \A i \in 1..Len(calls) : \A j \in 1..Len(calls) :
        (i < j /\ calls[i].file = calls[j].file) =>
            calls[j].after = calls[i].after

====
